---- MODULE Spec2Model ----
(***************************************************************************)
(* Sparse Merkle tree of m0t0k1ch1/sparse-merkle-tree (tree.go).           *)
(*                                                                         *)
(* Representation.                                                         *)
(*  - A uint64 is the set of its set bit positions, a subset of 0..63, so  *)
(*    that 64-bit arithmetic (wrap-around included) is exact.              *)
(*  - A byte string is a sequence of integers.  Values 0..255 are literal  *)
(*    bytes.  The bytes of a digest are values >= 256: the digest of the   *)
(*    n-th distinct input the hasher has seen (n counted from 0) is the    *)
(*    hashSize bytes 256 + n*hashSize + (0 .. hashSize-1).  The variable   *)
(*    oracle lists those inputs in the order they were first hashed, so    *)
(*    the hash is a function and it is injective (collision-free).         *)
(***************************************************************************)
EXTENDS Integers, Sequences, FiniteSets, TLC

VARIABLES
    pc,            \* position: "new", "leaves", "inner", "ready", "failed"
    hashSize,      \* tree.hashSize
    depth,         \* tree.depth
    indexMax,      \* tree.indexMax, a uint64
    defaultNodes,  \* tree.defaultNodes: level -> digest
    levels,        \* tree.levels: level -> (index -> digest)
    leaves,        \* the leaves argument of NewTree: index -> bytes
    todo,          \* keys the running range loop has not visited yet
    d,             \* the level build is working on
    oracle,        \* inputs the hasher has digested, in first-seen order
    newErr,        \* what NewTree returned: "pending", "nil", an error, "panic"
    call           \* the last CreateMembershipProof / VerifyMembershipProof call

vars == <<pc, hashSize, depth, indexMax, defaultNodes, levels, leaves, todo, d,
          oracle, newErr, call>>

(***************************************************************************)
(* Bounds of the model.                                                    *)
(***************************************************************************)
MaxDepth == 2
MaxLeaves == 2
MaxHashSize == 2

(***************************************************************************)
(* Program constants and errors.                                           *)
(***************************************************************************)
DepthMax == 64
proofHeadSize == DepthMax \div 8

ErrTooLargeTreeDepth == "too large tree depth"
ErrTooLargeLeafIndex == "too large leaf index"
ErrTooLargeProofSize == "too large proof size"
ErrInvalidProofSize == "invalid proof size"

(***************************************************************************)
(* uint64 arithmetic on bit sets.                                          *)
(***************************************************************************)
U64Bits == 0 .. 63
AllOnes == U64Bits

Pow2(n) == 2 ^ n

\* the uint64 of a small natural number
FromNat(n) == {k \in 0 .. 30 : (n \div Pow2(k)) % 2 = 1}

\* a < b
Lt(a, b) == \E k \in b \ a : \A j \in (a \cup b) : j > k => (j \in a <=> j \in b)

\* a + 1, wrapping
Inc(a) ==
    IF a = U64Bits THEN {}
    ELSE LET k == CHOOSE k \in U64Bits : k \notin a /\ \A j \in 0 .. (k - 1) : j \in a
         IN (a \ (0 .. (k - 1))) \cup {k}

\* a - 1, wrapping
Dec(a) ==
    IF a = {} THEN U64Bits
    ELSE LET k == CHOOSE k \in a : \A j \in a : k <= j
         IN (a \ {k}) \cup (0 .. (k - 1))

\* a / 2
Half(a) == {k - 1 : k \in a \ {0}}

\* a % 2 == 0
IsEven(a) == 0 \notin a

\* 1 << k as a uint64
OneShl(k) == IF k \in U64Bits THEN {k} ELSE {}

\* the carry into bit k of a + b: some lower bit generates a carry and every
\* bit between passes it on
Carry(a, b, k) ==
    \E j \in 0 .. (k - 1) :
        /\ j \in a
        /\ j \in b
        /\ \A i \in (j + 1) .. (k - 1) : i \in a \/ i \in b

\* a + b, wrapping
Add(a, b) == {k \in U64Bits : (k \in a) # ((k \in b) # Carry(a, b, k))}

\* 2^64 mod m, for uint64 subtraction that wraps below zero
RECURSIVE Pow2Mod(_, _)
Pow2Mod(n, m) ==
    IF n = 0 THEN 1 % m
    ELSE IF n % 2 = 1 THEN (2 * Pow2Mod(n - 1, m)) % m
    ELSE LET h == Pow2Mod(n \div 2, m)
         IN (h * h) % m

(***************************************************************************)
(* encoding/binary.BigEndian                                               *)
(***************************************************************************)
RECURSIVE ByteOf(_, _, _)
\* the value of the byte whose bit b is bit (base + b) of v, from bit b up
ByteOf(v, base, b) ==
    IF b > 7 THEN 0
    ELSE (IF (base + b) \in v THEN Pow2(b) ELSE 0) + ByteOf(v, base, b + 1)

PutUint64(v) == [j \in 1 .. 8 |-> ByteOf(v, 8 * (8 - j), 0)]

Uint64(bs) ==
    {8 * (8 - j) + b : j \in 1 .. 8, b \in 0 .. 7} \cap
    {k \in U64Bits : (bs[8 - (k \div 8)] \div Pow2(k % 8)) % 2 = 1}

(***************************************************************************)
(* The hasher.                                                             *)
(***************************************************************************)
ZeroBlock(hs) == [i \in 1 .. hs |-> 0]

Digest(n, hs) == [i \in 1 .. hs |-> 256 + n * hs + (i - 1)]

\* hasher.Reset(); hasher.Write(b); hasher.Sum(nil) against the table o.
\* hash.Hash documents that Write never returns an error.
Hash(o, hs, b) ==
    IF \E n \in 1 .. Len(o) : o[n] = b
    THEN [o |-> o, v |-> Digest((CHOOSE n \in 1 .. Len(o) : o[n] = b) - 1, hs),
          err |-> "nil"]
    ELSE [o |-> Append(o, b), v |-> Digest(Len(o), hs), err |-> "nil"]

PairHash(o, hs, b1, b2) == Hash(o, hs, b1 \o b2)

(***************************************************************************)
(* buildDefaultNodes                                                       *)
(***************************************************************************)
RECURSIVE DefaultLoop(_, _, _, _, _)
\* the iterations d = dd downto lo + 1 of "for d := depth; d > 0; d--"; a run
\* of more than one iteration is its upper half followed by its lower half
DefaultLoop(o, hs, dd, dn, lo) ==
    IF dd <= lo THEN [o |-> o, dn |-> dn, err |-> "nil"]
    ELSE IF dd = lo + 1
    THEN LET h == PairHash(o, hs, dn[dd], dn[dd])
         IN IF h.err # "nil"
            THEN [o |-> h.o, dn |-> dn, err |-> h.err]
            ELSE [o |-> h.o, dn |-> ((dd - 1) :> h.v) @@ dn, err |-> "nil"]
    ELSE LET mid == (dd + lo) \div 2
             upper == DefaultLoop(o, hs, dd, dn, mid)
         IN IF upper.err # "nil"
            THEN upper
            ELSE DefaultLoop(upper.o, hs, mid, upper.dn, lo)

BuildDefaultNodes(o, hs, dep) ==
    LET h == Hash(o, hs, ZeroBlock(hs))
    IN IF h.err # "nil"
       THEN [o |-> h.o, dn |-> <<>>, err |-> h.err]
       ELSE DefaultLoop(h.o, hs, dep, (dep :> h.v), 0)

(***************************************************************************)
(* Inputs the model draws from.                                            *)
(***************************************************************************)
Depths == (0 .. MaxDepth) \cup {DepthMax, DepthMax + 1}

HashSizes == 1 .. MaxHashSize

\* indices offered as leaf keys and as queried indices of a tree of depth dep:
\* for a small depth the whole range, the first index beyond it and the largest
\* uint64; for the large depths the ends of the uint64 range
IndexInputs(dep) ==
    IF dep <= MaxDepth
    THEN {FromNat(n) : n \in 0 .. Pow2(dep)} \cup {AllOnes}
    ELSE {{}, {0}, {63}, Dec(AllOnes), AllOnes}

\* leaf contents: the all-zero block of hashSize bytes, and other bytes
LeafValues(hs) == {ZeroBlock(hs), <<3, 3, 3>>}

\* the key sets of the leaf maps: up to MaxLeaves keys for a small depth, at
\* most one key for the large depths
LeafKeys(dep) ==
    IF dep <= MaxDepth
    THEN {T \in SUBSET IndexInputs(dep) : Cardinality(T) <= MaxLeaves}
    ELSE {{}} \cup {{i} : i \in IndexInputs(dep)}

LeafMaps(dep, hs) == UNION {[S -> LeafValues(hs)] : S \in LeafKeys(dep)}

NoCall == [op |-> "none", index |-> {}, proof |-> <<>>, hidden |-> <<>>,
           panic |-> FALSE, ok |-> FALSE, err |-> "nil", out |-> <<>>]

Init ==
    /\ pc = "new"
    /\ hashSize = 0
    /\ depth = 0
    /\ indexMax = {}
    /\ defaultNodes = <<>>
    /\ levels = <<>>
    /\ leaves = <<>>
    /\ todo = {}
    /\ d = 0
    /\ oracle = <<>>
    /\ newErr = "pending"
    /\ call = NoCall

(***************************************************************************)
(* NewTree                                                                 *)
(***************************************************************************)
\* maxIndex(leaves): the largest key of the map, 0 when the map is empty
maxIndex(lv) ==
    IF DOMAIN lv = {} THEN {}
    ELSE CHOOSE a \in DOMAIN lv : \A b \in DOMAIN lv : ~Lt(a, b)

\* indexMaxOf without the decrement: 2^depth itself
indexMaxOfNoDecrement(dep) ==
    IF dep > 0
    THEN {[panic |-> FALSE, v |-> OneShl(dep)]}
    ELSE {[panic |-> TRUE, v |-> {}], [panic |-> FALSE, v |-> {}]}

\* new(big.Int).Lsh(big.NewInt(2), uint(depth-1)).Uint64() - 1
\* For depth >= 1 the shifted value is 2^depth, of which Uint64() keeps the low
\* 64 bits (0 when depth = 64), and the decrement wraps.  For depth = 0 the
\* uint64 depth-1 wraps to 2^64-1: with a 64-bit uint the shift count makes Lsh
\* ask for a slice of 2^58 words and the runtime panics; with a 32-bit uint the
\* count is 2^32-1, the shift is carried out, the low 64 bits are 0 and the
\* decrement wraps to 2^64-1.
indexMaxOf(dep) ==
    IF dep > 0
    THEN {[panic |-> FALSE, v |-> Dec(OneShl(dep))]}
    ELSE {[panic |-> TRUE, v |-> {}], [panic |-> FALSE, v |-> Dec({})]}

\* TooDeep with the comparison off by one
TooDeepFrom64(dep) == dep >= DepthMax

\* if depth > DepthMax
TooDeep(dep) == dep > DepthMax

NewTreeFails(hs, dep, lv, err) ==
    /\ pc' = "failed"
    /\ newErr' = err
    /\ hashSize' = hs
    /\ depth' = dep
    /\ leaves' = lv
    /\ UNCHANGED <<indexMax, defaultNodes, levels, todo, d, oracle, call>>

NewTree(hs, dep, lv) ==
    /\ pc = "new"
    /\ IF TooDeep(dep)
       THEN NewTreeFails(hs, dep, lv, ErrTooLargeTreeDepth)
       ELSE \E im \in indexMaxOf(dep) :
              IF im.panic
              THEN NewTreeFails(hs, dep, lv, "panic")
              ELSE IF Lt(im.v, maxIndex(lv))
              THEN NewTreeFails(hs, dep, lv, ErrTooLargeLeafIndex)
              ELSE LET b == BuildDefaultNodes(oracle, hs, dep)
                   IN IF b.err # "nil"
                      THEN NewTreeFails(hs, dep, lv, b.err)
                      ELSE /\ pc' = "leaves"
                           /\ newErr' = "pending"
                           /\ hashSize' = hs
                           /\ depth' = dep
                           /\ indexMax' = im.v
                           /\ defaultNodes' = b.dn
                           /\ levels' = [i \in 0 .. dep |-> <<>>]
                           /\ oracle' = b.o
                           /\ leaves' = lv
                           /\ todo' = DOMAIN lv
                           /\ UNCHANGED <<d, call>>

(***************************************************************************)
(* build: the range loops visit the keys in any order                      *)
(***************************************************************************)
\* if err != nil { return err }: build returns the error and NewTree returns
\* (nil, err)
BuildFails(err) ==
    /\ pc' = "failed"
    /\ newErr' = err
    /\ UNCHANGED <<hashSize, depth, indexMax, defaultNodes, levels, leaves, todo, d,
                   oracle, call>>

\* levels[lvl][index] = node
Store(lvl, index, node) == [levels EXCEPT ![lvl] = (index :> node) @@ @]

\* one iteration of "for index, leaf := range leaves"
HashLeaf ==
    /\ pc = "leaves"
    /\ \E index \in todo :
         LET h == Hash(oracle, hashSize, leaves[index])
         IN IF h.err # "nil"
            THEN BuildFails(h.err)
            ELSE /\ oracle' = h.o
                 /\ levels' = Store(depth, index, h.v)
                 /\ todo' = todo \ {index}
                 /\ UNCHANGED <<pc, hashSize, depth, indexMax, defaultNodes, leaves, d,
                                newErr, call>>

\* the control of "for d := tree.depth; d > 0; d--": entered after the leaves
\* loop and after each pass over a level; build and NewTree return when d = 0
NextLevel ==
    /\ pc \in {"leaves", "inner"}
    /\ todo = {}
    /\ LET nd == IF pc = "leaves" THEN depth ELSE d - 1
       IN /\ d' = nd
          /\ IF nd > 0
             THEN /\ pc' = "inner"
                  /\ todo' = DOMAIN levels[nd]
                  /\ newErr' = newErr
             ELSE /\ pc' = "ready"
                  /\ todo' = {}
                  /\ newErr' = "nil"
    /\ UNCHANGED <<hashSize, depth, indexMax, defaultNodes, levels, leaves, oracle, call>>

\* SiblingOrDefault that never looks the odd sibling up
SiblingAlwaysDefault(level, index, dd) == defaultNodes[dd]

\* siblingNode, ok := level[index+1]; if !ok { siblingNode = tree.defaultNodes[d] }
SiblingOrDefault(level, index, dd) ==
    IF Inc(index) \in DOMAIN level THEN level[Inc(index)] ELSE defaultNodes[dd]

EvenSiblingNeverStored(level, index) == FALSE

\* _, ok := level[index-1] for an odd index: the iteration of the even index
\* of the pair writes the parent
EvenSiblingStored(level, index) == Dec(index) \in DOMAIN level

\* levels[d-1][index/2] = the digest h of the pair, unless the hasher failed
StoreParent(index, h) ==
    IF h.err # "nil"
    THEN BuildFails(h.err)
    ELSE /\ oracle' = h.o
         /\ levels' = Store(d - 1, Half(index), h.v)
         /\ todo' = todo \ {index}
         /\ UNCHANGED <<pc, hashSize, depth, indexMax, defaultNodes, leaves, d,
                        newErr, call>>

\* one iteration of "for index, node := range level"
BuildNode ==
    /\ pc = "inner"
    /\ \E index \in todo :
         LET level == levels[d]
             node == level[index]
         IN IF IsEven(index)
            THEN StoreParent(index, PairHash(oracle, hashSize, node,
                                             SiblingOrDefault(level, index, d)))
            ELSE IF EvenSiblingStored(level, index)
            THEN /\ todo' = todo \ {index}
                 /\ UNCHANGED <<pc, hashSize, depth, indexMax, defaultNodes, levels,
                                leaves, d, oracle, newErr, call>>
            ELSE StoreParent(index, PairHash(oracle, hashSize, defaultNodes[d], node))

\* tree.Root()
Root ==
    IF {} \in DOMAIN levels[0] THEN levels[0][{}] ELSE defaultNodes[0]

(***************************************************************************)
(* CreateMembershipProof                                                   *)
(***************************************************************************)
\* the index of the sibling of index at its level
SiblingIndex(index) == IF IsEven(index) THEN Inc(index) ELSE Dec(index)

\* HeadBit numbered from the root: 1 << (d - 1)
HeadBitFromRoot(dd) == OneShl(dd - 1)

\* 1 << (tree.depth - d): the head bit of level dd
HeadBit(dd) == OneShl(depth - dd)

RECURSIVE CreateLoop(_, _, _, _, _)
\* the iterations d = dd downto lo + 1 of "for d := tree.depth; d > 0; d--":
\* the level and the index reached, the head built so far and the sibling
\* digests written to the buffer so far.  A run of more than one iteration is
\* its upper half followed by its lower half.
CreateLoop(dd, index, proofHead, body, lo) ==
    IF dd <= lo
    THEN [dd |-> dd, index |-> index, proofHead |-> proofHead, body |-> body]
    ELSE IF dd = lo + 1
    THEN LET siblingIndex == SiblingIndex(index)
         IN IF siblingIndex \in DOMAIN levels[dd]
            THEN [dd |-> dd - 1, index |-> Half(index),
                  proofHead |-> Add(proofHead, HeadBit(dd)),
                  body |-> body \o levels[dd][siblingIndex]]
            ELSE [dd |-> dd - 1, index |-> Half(index),
                  proofHead |-> proofHead, body |-> body]
    ELSE LET upper == CreateLoop(dd, index, proofHead, body, (dd + lo) \div 2)
         IN CreateLoop(upper.dd, upper.index, upper.proofHead, upper.body, lo)

\* The buffer starts as the 8 zero bytes of proofHeadBytes and the siblings are
\* appended to it; the head is then encoded big-endian and copied over the
\* first 8 bytes of buf.Bytes().
CreateMembershipProof(index) ==
    IF Lt(indexMax, index)
    THEN [proof |-> <<>>, err |-> ErrTooLargeLeafIndex]
    ELSE LET w == CreateLoop(depth, index, {}, <<>>, 0)
         IN [proof |-> PutUint64(w.proofHead) \o w.body, err |-> "nil"]

(***************************************************************************)
(* VerifyMembershipProof                                                   *)
(***************************************************************************)
\* (uint64(n) - proofHeadSize) % m, the subtraction wrapping below zero
SubHeadMod(n, m) ==
    IF n >= proofHeadSize
    THEN (n - proofHeadSize) % m
    ELSE (Pow2Mod(64, m) + n + proofHeadSize * m - proofHeadSize) % m

Returned(ok, err) == [panic |-> FALSE, ok |-> ok, err |-> err]
Panicked == [panic |-> TRUE, ok |-> FALSE, err |-> "nil"]

\* the two size checks, on the length n of the proof
ProofSizeErr(n) ==
    IF n > hashSize * depth + proofHeadSize THEN ErrTooLargeProofSize
    ELSE IF SubHeadMod(n, hashSize) # 0 THEN ErrInvalidProofSize
    ELSE "nil"

\* SiblingNode that takes the default node whatever the head says
SiblingNodeDefaultOnly(mem, proofHead, proofIndex, dd) == defaultNodes[dd]

\* the sibling of a level: the default node when bit 0 of the head is clear,
\* else the next hashSize bytes of the proof
SiblingNode(mem, proofHead, proofIndex, dd) ==
    IF 0 \notin proofHead
    THEN defaultNodes[dd]
    ELSE SubSeq(mem, proofIndex + 1, proofIndex + hashSize)

\* Combine that puts b on the left whatever the parity of index
CombineLeft(o, index, b, siblingNode) == PairHash(o, hashSize, b, siblingNode)

\* b joined with its sibling, on the side the parity of index gives
Combine(o, index, b, siblingNode) ==
    IF IsEven(index)
    THEN PairHash(o, hashSize, b, siblingNode)
    ELSE PairHash(o, hashSize, siblingNode, b)

\* the state of the loop of VerifyMembershipProof: ret holds the result once
\* the call has returned or panicked
Walking(o, dd, index, proofHead, proofIndex, b) ==
    [ret |-> <<>>, o |-> o, dd |-> dd, index |-> index, proofHead |-> proofHead,
     proofIndex |-> proofIndex, b |-> b]

Walked(o, dd, result) ==
    [ret |-> <<result>>, o |-> o, dd |-> dd, index |-> {}, proofHead |-> {},
     proofIndex |-> 0, b |-> <<>>]

RECURSIVE VerifyLoop(_, _, _, _, _, _, _, _)
\* the iterations d = dd downto lo + 1 of "for d := tree.depth; d > 0; d--".
\* mem is the backing array of the proof slice from its first byte to its
\* capacity: a slice expression proof[lo:hi] panics only when hi exceeds the
\* capacity.  A run of more than one iteration is its upper half followed by
\* its lower half.
VerifyLoop(o, mem, dd, index, proofHead, proofIndex, b, lo) ==
    IF dd <= lo THEN Walking(o, dd, index, proofHead, proofIndex, b)
    ELSE IF dd = lo + 1
    THEN IF 0 \in proofHead /\ proofIndex + hashSize > Len(mem)
         THEN Walked(o, dd, Panicked)
         ELSE LET siblingNode == SiblingNode(mem, proofHead, proofIndex, dd)
                  nextIndex == IF 0 \notin proofHead
                               THEN proofIndex
                               ELSE proofIndex + hashSize
                  h == Combine(o, index, b, siblingNode)
              IN IF h.err # "nil"
                 THEN Walked(h.o, dd, Returned(FALSE, h.err))
                 ELSE Walking(h.o, dd - 1, Half(index), Half(proofHead),
                              nextIndex, h.v)
    ELSE LET upper == VerifyLoop(o, mem, dd, index, proofHead, proofIndex, b,
                                 (dd + lo) \div 2)
         IN IF upper.ret # <<>>
            THEN upper
            ELSE VerifyLoop(upper.o, mem, upper.dd, upper.index, upper.proofHead,
                            upper.proofIndex, upper.b, lo)

\* proof is the slice's bytes up to its length, hidden the bytes of its backing
\* array between its length and its capacity
VerifyMembershipProof(index, proof, hidden) ==
    IF Lt(indexMax, index)
    THEN Returned(FALSE, ErrTooLargeLeafIndex)
    ELSE IF ProofSizeErr(Len(proof)) # "nil"
    THEN Returned(FALSE, ProofSizeErr(Len(proof)))
    ELSE IF proofHeadSize > Len(proof) + Len(hidden)
    THEN Panicked
    ELSE LET mem == proof \o hidden
             proofHead == Uint64(SubSeq(mem, 1, proofHeadSize))
             b == IF index \in DOMAIN levels[depth]
                  THEN levels[depth][index]
                  ELSE defaultNodes[depth]
             w == VerifyLoop(oracle, mem, depth, index, proofHead, proofHeadSize,
                             b, 0)
         IN IF w.ret # <<>> THEN w.ret[1] ELSE Returned(w.b = Root, "nil")

(***************************************************************************)
(* Proofs offered to VerifyMembershipProof.                                *)
(***************************************************************************)
Junk(n) == [i \in 1 .. n |-> 170]

HeadOf(p) == Uint64(SubSeq(p, 1, proofHeadSize))
BodyOf(p) == SubSeq(p, proofHeadSize + 1, Len(p))
Slots(p) == (Len(p) - proofHeadSize) \div hashSize
Slot(p, j) == SubSeq(p, proofHeadSize + (j - 1) * hashSize + 1, proofHeadSize + j * hashSize)

\* p with its j-th sibling digest replaced by x
WithSlot(p, j, x) ==
    SubSeq(p, 1, proofHeadSize + (j - 1) * hashSize) \o x
      \o SubSeq(p, proofHeadSize + j * hashSize + 1, Len(p))

\* heads put in front of the body of p
HeadInputs(p) ==
    {FromNat(n) : n \in 0 .. 3}
      \cup {HeadOf(p) \cup {k} : k \in {depth, 63}}
      \cup {HeadOf(p) \ {k} : k \in HeadOf(p)}

\* digests put in place of a sibling digest
SlotInputs == {defaultNodes[depth], Junk(hashSize)}

\* the proofs derived from a proof p that CreateMembershipProof returned
Tampered(p) ==
    {p}
      \cup {PutUint64(h) \o BodyOf(p) : h \in HeadInputs(p)}
      \cup {WithSlot(p, j, x) : j \in 1 .. Slots(p), x \in SlotInputs}
      \cup {SubSeq(p, 1, Len(p) - 1), p \o Junk(1), p \o Junk(hashSize)}

\* proofs of other shapes: shorter than a head, and longer than any proof
Malformed ==
    {[i \in 1 .. n |-> 0] : n \in 0 .. proofHeadSize}
      \cup {PutUint64({}) \o Junk(hashSize * depth + k) : k \in {1, hashSize}}

\* the proof CreateMembershipProof returns for index, or for index 0 when it
\* returns none for index
HonestProofs(index) ==
    {CreateMembershipProof(IF Lt(indexMax, index) THEN {} ELSE index).proof}

\* HonestProofs(index) with one sibling digest replaced
SlotTampered(index) ==
    UNION {{WithSlot(p, j, x) : j \in 1 .. Slots(p), x \in SlotInputs} :
             p \in HonestProofs(index)}

ProofInputs(index) ==
    Malformed \cup UNION {Tampered(p) : p \in HonestProofs(index)}

HiddenInputs == {<<>>, Junk(hashSize)}

(***************************************************************************)
(* The calls on a built tree.                                              *)
(***************************************************************************)
Create(index) ==
    /\ LET r == CreateMembershipProof(index)
       IN call' = [op |-> "create", index |-> index, proof |-> <<>>, hidden |-> <<>>,
                   panic |-> FALSE, ok |-> FALSE, err |-> r.err, out |-> r.proof]
    /\ UNCHANGED <<pc, hashSize, depth, indexMax, defaultNodes, levels, leaves, todo,
                   d, oracle, newErr>>

\* The digests a verification computes are not kept by the tree, so the inputs
\* it hashes need not stay in the table.
Verify(index, proof, hidden) ==
    /\ LET r == VerifyMembershipProof(index, proof, hidden)
       IN call' = [op |-> "verify", index |-> index, proof |-> proof, hidden |-> hidden,
                   panic |-> r.panic, ok |-> r.ok, err |-> r.err, out |-> <<>>]
    /\ UNCHANGED <<pc, hashSize, depth, indexMax, defaultNodes, levels, leaves, todo,
                   d, oracle, newErr>>

\* The methods are callable once NewTree has returned the tree.  A caller makes
\* its calls one after the other: the result of a call is taken (Discard) before
\* the next call is made.
CallCreate ==
    /\ pc = "ready"
    /\ call.op = "none"
    /\ \E index \in IndexInputs(depth) : Create(index)

CallVerify ==
    /\ pc = "ready"
    /\ call.op = "none"
    /\ \E index \in IndexInputs(depth) :
         \E proof \in ProofInputs(index), hidden \in HiddenInputs :
           Verify(index, proof, hidden)

\* the calls a holder of honest proofs makes
CallVerifyHonest ==
    /\ pc = "ready"
    /\ call.op = "none"
    /\ \E index \in IndexInputs(depth) :
         \E proof \in HonestProofs(index), hidden \in HiddenInputs :
           Verify(index, proof, hidden)

\* the calls that offer a proof with one sibling digest replaced
CallVerifySlotTampered ==
    /\ pc = "ready"
    /\ call.op = "none"
    /\ \E index \in IndexInputs(depth) :
         \E proof \in SlotTampered(index) : Verify(index, proof, <<>>)

Discard ==
    /\ pc = "ready"
    /\ call.op # "none"
    /\ call' = NoCall
    /\ UNCHANGED <<pc, hashSize, depth, indexMax, defaultNodes, levels, leaves, todo,
                   d, oracle, newErr>>

\* NewTree, from the call to the return
NextBuild ==
    \/ \E hs \in HashSizes, dep \in Depths : \E lv \in LeafMaps(dep, hs) : NewTree(hs, dep, lv)
    \/ HashLeaf
    \/ NextLevel
    \/ BuildNode

\* the program under every proof the model offers
Next ==
    \/ NextBuild
    \/ CallCreate
    \/ CallVerify
    \/ Discard

Spec == Init /\ [][Next]_vars

\* the construction alone
SpecBuild == Init /\ [][NextBuild]_vars

\* the program under the proofs that CreateMembershipProof returns
NextHonest ==
    \/ NextBuild
    \/ CallCreate
    \/ CallVerifyHonest
    \/ Discard

SpecHonest == Init /\ [][NextHonest]_vars

\* the program under proofs with one sibling digest replaced
NextSlotTampered ==
    \/ NextBuild
    \/ CallVerifySlotTampered
    \/ Discard

SpecSlotTampered == Init /\ [][NextSlotTampered]_vars

(***************************************************************************)
(* Vocabulary of the properties.                                           *)
(***************************************************************************)
\* index < 2^dep
InRange(index, dep) == \A k \in index : k < dep

\* index * 2 and index * 2 + 1
Twice(index) == {k + 1 : k \in index}
TwicePlusOne(index) == Twice(index) \cup {0}

\* index >> k
Shr(index, k) == {b - k : b \in {c \in index : c >= k}}

\* the index next to index in its sibling pair
Flip(index) == IF 0 \in index THEN index \ {0} ELSE index \cup {0}

Built == pc = "ready"
Verified == pc = "ready" /\ call.op = "verify"
Created == pc = "ready" /\ call.op = "create"

\* the last call returned (ok, nil)
ReturnedOk(ok) == ~call.panic /\ call.err = "nil" /\ call.ok = ok

\* the proof CreateMembershipProof returns for the index of the last call
Honest == CreateMembershipProof(call.index).proof

\* C1: on a built tree, verifying the proof that CreateMembershipProof returns
\* for an index below 2^depth, at that index, returns (true, nil), whether or
\* not the index was supplied as a leaf.
RoundTrip ==
    (Verified /\ InRange(call.index, depth) /\ call.proof = Honest)
        => ReturnedOk(TRUE)

\* an inclusion proof that carries a sibling digest has been verified in a
\* tree of depth two or more
RoundTripWitness ==
    /\ Verified
    /\ depth >= 2
    /\ InRange(call.index, depth)
    /\ call.proof = Honest
    /\ call.index \in DOMAIN leaves
    /\ Slots(call.proof) >= 1
    /\ ReturnedOk(TRUE)

\* the number of the low dep bits set in head
PopCount(head, dep) == Cardinality({k \in head : k < dep})

\* the remainder of len - 8 by m (mathematical)
Remainder(len, m) == (len + proofHeadSize * m - proofHeadSize) % m

\* C2: for an index below 2^depth and a proof that passes both size checks,
\* the call returns (bool, nil) and reads nothing beyond the proof: the proof
\* holds one sibling slot for each bit set among the low depth bits of its
\* head (stated for the trees of depth 1 and more and for the proofs that are
\* long enough to hold the 8-byte head).
WalkStaysInProof ==
    (/\ Verified
     /\ depth >= 1
     /\ InRange(call.index, depth)
     /\ Len(call.proof) >= proofHeadSize
     /\ Len(call.proof) <= proofHeadSize + hashSize * depth
     /\ Remainder(Len(call.proof), hashSize) = 0)
        => /\ ~call.panic
           /\ call.err = "nil"
           /\ Len(call.proof) >= proofHeadSize
                + hashSize * PopCount(HeadOf(call.proof), depth)

\* the digest of b if the hasher has digested b, else no digest
Lookup(b) ==
    IF \E n \in 1 .. Len(oracle) : oracle[n] = b
    THEN Digest((CHOOSE n \in 1 .. Len(oracle) : oracle[n] = b) - 1, hashSize)
    ELSE <<>>

RECURSIVE RefNode(_, _)
\* node (dd, index) of the fully materialized tree
RefNode(dd, index) ==
    IF dd = depth
    THEN IF index \in DOMAIN leaves THEN Lookup(leaves[index]) ELSE defaultNodes[depth]
    ELSE Lookup(RefNode(dd + 1, Twice(index)) \o RefNode(dd + 1, TwicePlusOne(index)))

RECURSIVE PathRefNode(_, _, _, _)
\* the ancestor at level lo of node (dd, index) of the materialized tree, with
\* its index, when every node off the path from (dd, index) upwards roots a
\* subtree without a leaf, which materializes to the default node of its level
PathRefNode(dd, index, node, lo) ==
    IF dd <= lo THEN [dd |-> dd, index |-> index, node |-> node]
    ELSE IF dd = lo + 1
    THEN [dd |-> dd - 1, index |-> Half(index),
          node |-> IF IsEven(index)
                   THEN Lookup(node \o defaultNodes[dd])
                   ELSE Lookup(defaultNodes[dd] \o node)]
    ELSE LET upper == PathRefNode(dd, index, node, (dd + lo) \div 2)
         IN PathRefNode(upper.dd, upper.index, upper.node, lo)

\* the root of the materialized tree over at most one supplied leaf (a leaf
\* at an index of 2^depth or more is no leaf of the materialized tree)
SingleLeafRoot ==
    LET held == {l \in DOMAIN leaves : InRange(l, depth)}
    IN IF held = {} THEN defaultNodes[0]
       ELSE LET l == CHOOSE l \in held : TRUE
            IN PathRefNode(depth, l, Lookup(leaves[l]), 0).node

\* C3: the root of a built tree is the root of the fully materialized tree
\* over the supplied leaves, whatever order the loops of build visited the
\* stored indices in, and the root of a tree without leaves is defaultNodes[0].
\* (A tree too deep to materialize whole holds at most one leaf here and is
\* compared along the path of that leaf.)
RootIsReference ==
    Built => /\ depth <= MaxDepth => Root = RefNode(0, {})
             /\ Cardinality(DOMAIN leaves) <= 1 => Root = SingleLeafRoot
             /\ DOMAIN leaves = {} => Root = defaultNodes[0]

\* a tree of depth two or more holding both leaves of a sibling pair is built
RootIsReferenceWitness ==
    /\ Built
    /\ depth >= 2
    /\ depth <= MaxDepth
    /\ {{}, {0}} \subseteq DOMAIN leaves
    /\ Root = RefNode(0, {})
    /\ Root # defaultNodes[0]

NewTreeReturned == pc \in {"failed", "ready"}

\* C4: for a depth from 1 to 64 the valid indices are those below 2^depth:
\* NewTree returns ErrTooLargeLeafIndex exactly when a supplied leaf index is
\* 2^depth or more, and CreateMembershipProof and VerifyMembershipProof return
\* ErrTooLargeLeafIndex exactly when the queried index is 2^depth or more (at
\* depth 64 never).
IndexRange ==
    (depth >= 1 /\ depth <= DepthMax) =>
        /\ NewTreeReturned =>
             ((pc = "failed" /\ newErr = ErrTooLargeLeafIndex)
                <=> \E i \in DOMAIN leaves : ~InRange(i, depth))
        /\ (Created \/ Verified) =>
             (call.err = ErrTooLargeLeafIndex <=> ~InRange(call.index, depth))
        /\ (Created \/ Verified) /\ call.err = ErrTooLargeLeafIndex =>
             (~call.ok /\ call.out = <<>>)

\* the largest uint64 is a leaf of a tree of depth 64 and its proof verifies
IndexRangeWitness ==
    /\ Verified
    /\ depth = DepthMax
    /\ AllOnes \in DOMAIN leaves
    /\ call.index = AllOnes
    /\ ReturnedOk(TRUE)

\* C5: depth 0 is handled: NewTree succeeds when the leaves are empty or hold
\* index 0 only, the root is then H(leaf 0) if supplied else defaultNodes[0],
\* a leaf index of 1 or more makes NewTree return ErrTooLargeLeafIndex, and the
\* methods reject every index of 1 or more with ErrTooLargeLeafIndex.
DepthZero ==
    depth = 0 =>
        /\ (NewTreeReturned /\ DOMAIN leaves \subseteq {{}}) => pc = "ready"
        /\ (NewTreeReturned /\ ~(DOMAIN leaves \subseteq {{}})) =>
             (pc = "failed" /\ newErr = ErrTooLargeLeafIndex)
        /\ Built =>
             Root = (IF {} \in DOMAIN leaves THEN Lookup(leaves[{}]) ELSE defaultNodes[0])
        /\ ((Created \/ Verified) /\ call.index # {}) =>
             call.err = ErrTooLargeLeafIndex

\* the error the checks of VerifyMembershipProof owe to (index, proof), the
\* index check before the size checks and the upper size check before the
\* remainder check, the subtraction being that of uint64
OwedErr(index, len) ==
    IF ~InRange(index, depth) THEN ErrTooLargeLeafIndex
    ELSE IF len > proofHeadSize + hashSize * depth THEN ErrTooLargeProofSize
    ELSE IF (IF len >= proofHeadSize
             THEN (len - proofHeadSize) % hashSize
             ELSE (Pow2Mod(64, hashSize) + Remainder(len, hashSize)) % hashSize) # 0
    THEN ErrInvalidProofSize
    ELSE "nil"

\* C6: VerifyMembershipProof returns (false, ErrTooLargeLeafIndex) for an
\* index of 2^depth or more whatever the proof, else (false,
\* ErrTooLargeProofSize) for a proof longer than 8 + hashSize*depth, else
\* (false, ErrInvalidProofSize) when (len - 8) mod hashSize is not 0, and else
\* it returns no error: a root mismatch is (false, nil).
ErrorPrecedence ==
    Verified =>
        /\ call.err = OwedErr(call.index, Len(call.proof))
        /\ call.err # "nil" => (~call.panic /\ ~call.ok)

\* the same statement for the trees of depth 1 and more
ErrorPrecedenceDeep == depth >= 1 => ErrorPrecedence

\* a proof that is both too long and of a length that leaves a remainder is
\* reported as too long
ErrorPrecedenceWitness ==
    /\ Verified
    /\ depth >= 1
    /\ InRange(call.index, depth)
    /\ Len(call.proof) > proofHeadSize + hashSize * depth
    /\ (Len(call.proof) - proofHeadSize) % hashSize # 0
    /\ call.err = ErrTooLargeProofSize

\* the head the proof for index owes: bit k is set iff the sibling of the path
\* node at level depth - k is stored
ExpectedHead(index) ==
    {k \in 0 .. (depth - 1) : Flip(Shr(index, k)) \in DOMAIN levels[depth - k]}

RECURSIVE ExpectedBody(_, _, _)
\* the stored siblings of the path of index at the levels depth - k down to
\* depth - (hi - 1), in that order
ExpectedBody(index, k, hi) ==
    IF k >= hi THEN <<>>
    ELSE IF hi = k + 1
    THEN IF k \in ExpectedHead(index)
         THEN levels[depth - k][Flip(Shr(index, k))]
         ELSE <<>>
    ELSE ExpectedBody(index, k, (k + hi) \div 2)
           \o ExpectedBody(index, (k + hi) \div 2, hi)

\* bs is the big-endian encoding of head: byte j holds bits 8*(8-j) .. 8*(8-j)+7
IsBigEndian(bs, head) ==
    \A j \in 1 .. 8 :
        /\ bs[j] \in 0 .. 255
        /\ \A b \in 0 .. 7 :
             ((bs[j] \div Pow2(b)) % 2 = 1) <=> ((8 * (8 - j) + b) \in head)

\* C7: the proof CreateMembershipProof returns for an index below 2^depth is
\* the 8-byte big-endian head followed by the stored siblings in leaf-to-root
\* order; bit k of the head is set iff the sibling at level depth - k is
\* stored, the bits from depth on are 0, and the length is 8 + hashSize times
\* the number of bits set.
ProofLayout ==
    (Created /\ InRange(call.index, depth)) =>
        /\ call.err = "nil"
        /\ Len(call.out) = proofHeadSize
             + hashSize * Cardinality(ExpectedHead(call.index))
        /\ IsBigEndian(SubSeq(call.out, 1, proofHeadSize), ExpectedHead(call.index))
        /\ SubSeq(call.out, proofHeadSize + 1, Len(call.out))
             = ExpectedBody(call.index, 0, depth)

\* a proof whose only sibling is the one next to the root has been created
ProofLayoutWitness ==
    /\ Created
    /\ depth >= 2
    /\ depth <= MaxDepth
    /\ InRange(call.index, depth)
    /\ ExpectedHead(call.index) = {depth - 1}
    /\ Len(call.out) = proofHeadSize + hashSize

\* the proof of the last call is the proof h with exactly its j-th sibling
\* digest replaced by another digest
ReplacesSlot(h, j) ==
    /\ Len(call.proof) = Len(h)
    /\ SubSeq(call.proof, 1, proofHeadSize) = SubSeq(h, 1, proofHeadSize)
    /\ Slot(call.proof, j) # Slot(h, j)
    /\ \A i \in 1 .. Slots(h) : i # j => Slot(call.proof, i) = Slot(h, i)

\* C8: the proof CreateMembershipProof returns for an index below 2^depth,
\* with one sibling digest of its body replaced by a different digest of the
\* same length, is answered (false, nil).
BodyTamperRejected ==
    (Verified /\ InRange(call.index, depth)) =>
        LET h == Honest
        IN (\E j \in 1 .. Slots(h) : ReplacesSlot(h, j)) => ReturnedOk(FALSE)

\* the second of two sibling digests has been replaced, by the digest of
\* another node, and the proof has been rejected
BodyTamperWitness ==
    /\ Verified
    /\ InRange(call.index, depth)
    /\ Slots(Honest) = 2
    /\ ReplacesSlot(Honest, 2)
    /\ Slot(call.proof, 2) = defaultNodes[depth]
    /\ ReturnedOk(FALSE)

\* C9: the body CreateMembershipProof returns for an index below 2^depth
\* under any other head is never verified as true (stated for the trees of
\* depth 1 and more).
WrongHeadRejected ==
    (/\ Verified
     /\ depth >= 1
     /\ InRange(call.index, depth)
     /\ Len(call.proof) >= proofHeadSize
     /\ BodyOf(call.proof) = BodyOf(Honest)
     /\ HeadOf(call.proof) # HeadOf(Honest))
        => ~ReturnedOk(TRUE)

\* C10: NewTree with a depth above 64 returns ErrTooLargeTreeDepth before
\* anything is hashed, whatever the leaves; NewTree with depth 64 and no
\* leaves does not fail, and the tree it returns has its 65 default nodes and
\* the root defaultNodes[0].
DepthBoundary ==
    /\ depth > DepthMax =>
         (pc = "failed" /\ newErr = ErrTooLargeTreeDepth /\ oracle = <<>>)
    /\ (depth = DepthMax /\ DOMAIN leaves = {}) =>
         /\ pc # "failed"
         /\ newErr \in {"pending", "nil"}
         /\ Built => (DOMAIN defaultNodes = 0 .. DepthMax /\ Root = defaultNodes[0])

\* a tree of depth 64 without leaves has been built and has verified a proof
DepthBoundaryWitness ==
    /\ Verified
    /\ depth = DepthMax
    /\ DOMAIN leaves = {}
    /\ ReturnedOk(TRUE)

\* the indices at level dd of the nodes above a supplied leaf (the leaves
\* themselves at level depth): floor(j / 2^(depth - dd)) for a leaf index j
AncestorsAt(dd) == {Shr(j, depth - dd) : j \in DOMAIN leaves}

\* the level store of a built tree holds exactly the ancestors
ExplicitAreAncestors ==
    Built => \A dd \in 0 .. depth : DOMAIN levels[dd] = AncestorsAt(dd)

\* a step of build that changes the store at an inner level adds an entry to
\* the level above and rewrites none
ParentWrittenOnce ==
    (pc = "inner" /\ levels' # levels)
        => /\ DOMAIN levels'[d - 1] # DOMAIN levels[d - 1]
           /\ \A i \in DOMAIN levels[d - 1] : levels'[d - 1][i] = levels[d - 1][i]

\* C11: after build, at every level d of 0..depth the level store holds an
\* entry at index i iff floor(j / 2^(depth - d)) = i for some supplied leaf
\* index j, and build writes each parent once per sibling pair, in whichever
\* order the range loops visit the indices.
ExplicitNodes == []ExplicitAreAncestors /\ [][ParentWrittenOnce]_vars

\* a tree of depth two or more is built over both leaves of one sibling pair:
\* two entries at the leaf level, their one parent above
ExplicitNodesWitness ==
    /\ Built
    /\ depth >= 2
    /\ depth <= MaxDepth
    /\ \E j \in DOMAIN leaves :
         /\ DOMAIN leaves = {j, Flip(j)}
         /\ DOMAIN levels[depth] = {j, Flip(j)}
         /\ DOMAIN levels[depth - 1] = {Half(j)}
    /\ \A dd \in 0 .. depth - 1 : Cardinality(DOMAIN levels[dd]) = 1

\* the tree's digest of the subtree rooted at (dd, index): the stored node,
\* else the default node of the level
NodeAt(dd, index) ==
    IF index \in DOMAIN levels[dd] THEN levels[dd][index] ELSE defaultNodes[dd]

\* the indices 0 .. 2^dd - 1 of level dd
IndicesAt(dd) == {FromNat(n) : n \in 0 .. Pow2(dd) - 1}

\* a supplied leaf lies in the span of the subtree rooted at (dd, index)
HoldsLeaf(dd, index) == index \in AncestorsAt(dd)

\* at every node of the built tree, the digest is the default node of the
\* level iff no supplied leaf lies in the span
DefaultIffNoLeafAt(dd, index) ==
    /\ (NodeAt(dd, index) = defaultNodes[dd]) <=> ~HoldsLeaf(dd, index)
    /\ (RefNode(dd, index) = defaultNodes[dd]) <=> ~HoldsLeaf(dd, index)

\* C12: in a built tree, at every level d and every index i of that level,
\* the digest of the subtree rooted at (d, i) equals defaultNodes[d] iff no
\* supplied leaf lies in the subtree's span, whatever bytes the leaves hold
\* (the hasher is collision-free; stated for the trees of depth 1 and more).
DefaultIffNoLeaf ==
    (Built /\ depth >= 1 /\ depth <= MaxDepth)
        => \A dd \in 0 .. depth : \A index \in IndicesAt(dd) :
               DefaultIffNoLeafAt(dd, index)

\* the same over the trees none of whose leaves holds the block of hashSize
\* zero bytes, the input of defaultNodes[depth]
DefaultIffNoLeafNonZero ==
    (/\ Built
     /\ depth >= 1
     /\ depth <= MaxDepth
     /\ \A l \in DOMAIN leaves : leaves[l] # ZeroBlock(hashSize))
        => \A dd \in 0 .. depth : \A index \in IndicesAt(dd) :
               DefaultIffNoLeafAt(dd, index)

\* the direction that holds for every leaf value: a subtree without a
\* supplied leaf in its span has the default node of its level for digest
NoLeafIsDefault ==
    (Built /\ depth >= 1 /\ depth <= MaxDepth)
        => \A dd \in 0 .. depth : \A index \in IndicesAt(dd) :
               ~HoldsLeaf(dd, index)
                   => /\ NodeAt(dd, index) = defaultNodes[dd]
                      /\ RefNode(dd, index) = defaultNodes[dd]

====
